---- MODULE Spec2Model ----
(***************************************************************************)
(* Session lifecycle and the financial entry derived from it.              *)
(*                                                                         *)
(* Modelled from app/domain/entities (Session, FinancialEntry), the use    *)
(* cases under app/use_cases/session and the stores they call.             *)
(*                                                                         *)
(* Naming.  update_session_status.py is written against the names          *)
(* SessionStatus.CONCLUIDA and Session.complete(); the entity names them   *)
(* SessionStatus.REALIZADA and Session.mark_as_realized() (the use case's  *)
(* tests pass REALIZADA and expect the message of mark_as_realized).  The  *)
(* model binds CONCLUIDA to "realizada" and complete to mark_as_realized.  *)
(*                                                                         *)
(* Owner.  The session use cases carry no owner id: their store calls      *)
(* (get_by_id(session_id), list_pending(), update(session)) pass none, and *)
(* create_from_session is called without user_id.  The model follows that  *)
(* data flow: the use cases look sessions up by id alone, scan the pending *)
(* entries of every owner, and the entry they create carries NoUser.       *)
(***************************************************************************)
EXTENDS Integers, Sequences, FiniteSets, TLC

(***************************************************************************)
(* Bounds of the model.                                                    *)
(***************************************************************************)
MaxNow == 2

(***************************************************************************)
(* Program constants.                                                      *)
(***************************************************************************)
MaxPrice == 10000
MaxDuration == 480
DefaultDuration == 50
MaxNotesLength == 2000
EntryMaxPastDays == 3650
EntryMaxFutureDays == 365

Today == 0
NowHm == 12
YearDays == 365

AGENDADA == "agendada"
REALIZADA == "realizada"
CANCELADA == "cancelada"
FALTOU == "faltou"
SessionStatus == {AGENDADA, REALIZADA, CANCELADA, FALTOU}

CONCLUIDA == REALIZADA

PENDENTE == "pendente"
PAGO == "pago"
EntryStatus == {PENDENTE, PAGO}

(***************************************************************************)
(* Absent values (Python None) and error kinds.                            *)
(***************************************************************************)
None == "None"
NoUser == "NoUser"
NoTime == 0
NoId == 0
NoAmount == -1
NoSession == [id |-> 0]
NoEntry == [id |-> 0]

OK == "ok"
NotFound == "not_found"
BusinessRule == "business_rule"
Validation == "validation"
Infrastructure == "infrastructure"

(***************************************************************************)
(* Input values.  A datetime is a day (relative to today) and a time of    *)
(* day; date() keeps the day.                                              *)
(***************************************************************************)
Users == {"u1", "u2"}
KnownPatients == {"p1", "p2"}
NotesInputs == {None, "", "n"}

\* The requests to create a session that the model issues: two that are
\* accepted (the second dated more than a year ahead), one for a patient
\* that does not exist, one with a price above the ceiling.
CreateInputs ==
    { [user_id |-> "u1", patient_id |-> "p1", date_time |-> [day |-> 0, hm |-> 14],
       price |-> 200, notes |-> None],
      [user_id |-> "u2", patient_id |-> "p2", date_time |-> [day |-> 400, hm |-> 10],
       price |-> 250, notes |-> None],
      [user_id |-> "u1", patient_id |-> "p9", date_time |-> [day |-> 0, hm |-> 14],
       price |-> 200, notes |-> None],
      [user_id |-> "u2", patient_id |-> "p2", date_time |-> [day |-> 0, hm |-> 14],
       price |-> MaxPrice + 1, notes |-> None] }

\* The requests to update a session that the model issues; an absent
\* (None) field is the empty set.
UpdateInputs ==
    { [patient_id |-> {"p2"}, date_time |-> {}, price |-> {}, notes |-> {}],
      [patient_id |-> {"p9"}, date_time |-> {}, price |-> {}, notes |-> {}],
      [patient_id |-> {}, date_time |-> {[day |-> 7, hm |-> 10]}, price |-> {}, notes |-> {}],
      [patient_id |-> {}, date_time |-> {[day |-> -400, hm |-> 10]}, price |-> {}, notes |-> {}],
      [patient_id |-> {}, date_time |-> {}, price |-> {MaxPrice + 1}, notes |-> {"n"}] }

DateOf(date_time) == date_time.day

Truthy(notes) == notes # None /\ notes # ""

(***************************************************************************)
(* Session entity.  An operation returns the error it raises (OK when it   *)
(* returns) and the entity afterwards; t is datetime.now().                *)
(***************************************************************************)
is_completable_repeat(s) == s.status \in {AGENDADA, REALIZADA}

is_completable(s) == s.status = AGENDADA

is_cancellable_after_realized(s) == s.status \in {AGENDADA, REALIZADA}

is_cancellable(s) == s.status = AGENDADA

mark_as_realized_idempotent(s, t) ==
    IF s.status = REALIZADA
    THEN [err |-> OK, s |-> s]
    ELSE IF ~is_completable(s)
    THEN [err |-> BusinessRule, s |-> s]
    ELSE [err |-> OK, s |-> [s EXCEPT !.status = REALIZADA, !.updated_at = t]]

mark_as_realized(s, t) ==
    IF ~is_completable(s)
    THEN [err |-> BusinessRule, s |-> s]
    ELSE [err |-> OK, s |-> [s EXCEPT !.status = REALIZADA, !.updated_at = t]]

mark_as_missed(s, t) ==
    IF ~is_completable(s)
    THEN [err |-> BusinessRule, s |-> s]
    ELSE [err |-> OK, s |-> [s EXCEPT !.status = FALTOU, !.updated_at = t]]

cancel(s, t) ==
    IF ~is_cancellable(s)
    THEN [err |-> BusinessRule, s |-> s]
    ELSE [err |-> OK, s |-> [s EXCEPT !.status = CANCELADA, !.updated_at = t]]

\* datetime comparison a < b
Before(a, b) == a.day < b.day \/ (a.day = b.day /\ a.hm < b.hm)

\* now.replace(year=now.year - 1), for a call made today at NowHm
OneYearAgo == [day |-> Today - YearDays, hm |-> NowHm]

reschedule(s, new_date_time, t) ==
    IF s.status # AGENDADA
    THEN [err |-> BusinessRule, s |-> s]
    ELSE IF Before(new_date_time, OneYearAgo)
    THEN [err |-> Validation, s |-> s]
    ELSE [err |-> OK, s |-> [s EXCEPT !.date_time = new_date_time, !.updated_at = t]]

(***************************************************************************)
(* Session(...) constructor: __post_init__ validates the price, the        *)
(* duration and the notes.  The requests of the model leave the duration   *)
(* at its default.                                                         *)
(***************************************************************************)
validate_price(price) == price >= 0 /\ price <= MaxPrice

validate_duration(duration_minutes) ==
    duration_minutes > 0 /\ duration_minutes <= MaxDuration

validate_notes(notes) == notes = None \/ Len(notes) <= MaxNotesLength

NewSession(id, user_id, patient_id, date_time, price, notes) ==
    [id |-> id, user_id |-> user_id, patient_id |-> patient_id,
     date_time |-> date_time, price |-> price,
     duration_minutes |-> DefaultDuration, status |-> AGENDADA,
     notes |-> notes, updated_at |-> NoTime]

(***************************************************************************)
(* FinancialEntry entity.                                                  *)
(***************************************************************************)
validate_amount(amount) == amount >= 0 /\ amount <= MaxPrice

validate_entry_date(entry_date) ==
    /\ entry_date >= Today - EntryMaxPastDays
    /\ entry_date <= Today + EntryMaxFutureDays

create_from_session(id, session_id, patient_id, user_id, amount, session_date) ==
    LET e == [id |-> id, session_id |-> session_id, patient_id |-> patient_id,
              user_id |-> user_id, amount |-> amount,
              entry_date |-> DateOf(session_date),
              status |-> PENDENTE, paid_at |-> NoTime]
    IN  IF validate_amount(amount) /\ validate_entry_date(e.entry_date)
        THEN [err |-> OK, e |-> e]
        ELSE [err |-> Validation, e |-> NoEntry]

is_paid(e) == e.status = PAGO

mark_as_paid_unstamped(e, t) ==
    IF is_paid(e)
    THEN [err |-> BusinessRule, e |-> e]
    ELSE [err |-> OK, e |-> [e EXCEPT !.status = PAGO]]

mark_as_paid(e, t) ==
    IF is_paid(e)
    THEN [err |-> BusinessRule, e |-> e]
    ELSE [err |-> OK, e |-> [e EXCEPT !.status = PAGO, !.paid_at = t]]

mark_as_pending_keeps_paid_at(e) ==
    IF ~is_paid(e)
    THEN [err |-> BusinessRule, e |-> e]
    ELSE [err |-> OK, e |-> [e EXCEPT !.status = PENDENTE]]

mark_as_pending(e) ==
    IF ~is_paid(e)
    THEN [err |-> BusinessRule, e |-> e]
    ELSE [err |-> OK, e |-> [e EXCEPT !.status = PENDENTE, !.paid_at = NoTime]]

(***************************************************************************)
(* Stores, as the session use cases call them.                             *)
(***************************************************************************)
SessionIds == {1, 2}

get_by_id(store, session_id) ==
    IF session_id \in DOMAIN store THEN store[session_id] ELSE NoSession

\* SqlAlchemySessionRepository.update: update_model assigns every column
\* of the row from the entity; the unit of work writes the columns whose
\* value differs from the one this request loaded.
update(store, loaded, s) ==
    [store EXCEPT ![s.id] =
        [f \in DOMAIN s |-> IF s[f] # loaded[f] THEN s[f] ELSE @[f]]]

list_pending(store) == {e \in store : e.status = PENDENTE}

\* next((e for e in pending_entries if e.session_id == session.id), None):
\* the first match in the order of the list (entry_date ascending); the
\* order among matches of one date is the store's.
FirstMatches(pending, session_id) ==
    LET matches == {e \in pending : e.session_id = session_id}
    IN  IF matches = {}
        THEN {NoEntry}
        ELSE {m \in matches : \A m2 \in matches : m.entry_date <= m2.entry_date}

EntriesOf(store, session_id) == {e \in store : e.session_id = session_id}

(***************************************************************************)
(* UpdateSessionStatusUseCase.                                             *)
(***************************************************************************)
apply_status_transition_reopen(session, new_status, t) ==
    IF new_status = CONCLUIDA
    THEN mark_as_realized(session, t)
    ELSE IF new_status = CANCELADA
    THEN cancel(session, t)
    ELSE [err |-> OK, s |-> [session EXCEPT !.status = new_status, !.updated_at = t]]

apply_status_transition(session, new_status, t) ==
    IF new_status = CONCLUIDA
    THEN mark_as_realized(session, t)
    ELSE IF new_status = CANCELADA
    THEN cancel(session, t)
    ELSE IF new_status = AGENDADA
    THEN [err |-> BusinessRule, s |-> session]
    ELSE [err |-> OK, s |-> session]

ApplyNotes(session, notes) ==
    IF Truthy(notes) THEN [session EXCEPT !.notes = notes] ELSE session

CreatesEntry_unless_scheduled(new_status) == new_status # AGENDADA

CreatesEntry(new_status) == new_status = CONCLUIDA

Raised(op, session_id, new_status, err) ==
    [op |-> op, session_id |-> session_id, target |-> new_status, err |-> err,
     previous_status |-> None, new_status |-> None,
     financial_entry_id |-> NoId, financial_entry_amount |-> NoAmount]

Output(session, new_status, previous_status, entry) ==
    [op |-> "update_status", session_id |-> session.id, target |-> new_status,
     err |-> OK,
     previous_status |-> previous_status, new_status |-> session.status,
     financial_entry_id |-> IF entry = NoEntry THEN NoId ELSE entry.id,
     financial_entry_amount |-> IF entry = NoEntry THEN NoAmount ELSE entry.amount]

VARIABLES
    sessions,      \* session store: id -> Session or NoSession
    entries,       \* financial entry store: set of FinancialEntry
    nextEntryId,   \* next fresh entry id (uuid4)
    now,           \* clock: the last timestamp handed out
    hist,          \* per session id: outcome of the calls with target completed
    last,          \* the last call and what it returned or raised
    entity,        \* a Session object in memory (entity-level operations)
    calls,         \* concurrent updateStatus calls: position and locals of each
    patients,      \* patient store: set of Patient
    dash           \* the dashboard summary call in flight: its sub-queries

vars == <<sessions, entries, nextEntryId, now, hist, last, entity, calls,
          patients, dash>>

NoPrior == [outcome |-> "none", entry_id |-> NoId]

Procs == {"a", "b"}

Idle == [pc |-> "idle"]

Init ==
    /\ sessions = [i \in SessionIds |-> NoSession]
    /\ entries = {}
    /\ nextEntryId = 1
    /\ now = 0
    /\ hist = [i \in SessionIds |-> NoPrior]
    /\ last = [op |-> "init", err |-> OK]
    /\ entity = NoSession
    /\ calls = [p \in Procs |-> Idle]
    /\ patients = {}
    /\ dash = Idle

(***************************************************************************)
(* CreateSessionUseCase.execute: the patient must exist; the session is    *)
(* constructed AGENDADA (the constructor validates) and stored.            *)
(***************************************************************************)
CreateSession(user_id, patient_id, date_time, price, notes) ==
    /\ \E id \in SessionIds :
        /\ sessions[id] = NoSession
        /\ \A j \in SessionIds : j < id => sessions[j] # NoSession
        /\ IF patient_id \notin KnownPatients
           THEN /\ last' = [op |-> "create_session", err |-> NotFound]
                /\ UNCHANGED sessions
           ELSE IF ~(/\ validate_price(price)
                     /\ validate_duration(DefaultDuration)
                     /\ validate_notes(notes))
           THEN /\ last' = [op |-> "create_session", err |-> Validation]
                /\ UNCHANGED sessions
           ELSE /\ sessions' = [sessions EXCEPT ![id] =
                        NewSession(id, user_id, patient_id, date_time, price, notes)]
                /\ last' = [op |-> "create_session", err |-> OK, session_id |-> id]
    /\ UNCHANGED <<entries, nextEntryId, now, hist, entity, calls, patients, dash>>

(***************************************************************************)
(* UpdateSessionStatusUseCase.execute, one whole call.  fail: the store    *)
(* fails to persist the new entry (infrastructure error).                  *)
(***************************************************************************)
execute(session_id, new_status, notes) ==
    LET session == get_by_id(sessions, session_id)
    IN
    IF session = NoSession
    THEN /\ last' = Raised("update_status", session_id, new_status, NotFound)
         /\ UNCHANGED <<sessions, entries, nextEntryId, now, hist>>
    ELSE
    LET previous_status == session.status
        r == apply_status_transition(session, new_status, now + 1)
    IN
    IF r.err # OK
    THEN /\ last' = Raised("update_status", session_id, new_status, r.err)
         /\ UNCHANGED <<sessions, entries, nextEntryId, now, hist>>
    ELSE
    LET updated == ApplyNotes(r.s, notes)
        stamped == updated.updated_at # session.updated_at
    IN
    /\ stamped => now < MaxNow
    /\ now' = IF stamped THEN now + 1 ELSE now
    /\ sessions' = update(sessions, session, updated)
    /\ IF ~CreatesEntry(new_status)
       THEN /\ last' = Output(updated, new_status, previous_status, NoEntry)
            /\ UNCHANGED <<entries, nextEntryId, hist>>
       ELSE \E existing \in FirstMatches(list_pending(entries), updated.id),
               fail \in BOOLEAN :
            IF existing # NoEntry
            THEN /\ last' = Output(updated, new_status, previous_status, existing)
                 /\ hist' = [hist EXCEPT ![session_id] =
                                [outcome |-> "ok", entry_id |-> existing.id]]
                 /\ UNCHANGED <<entries, nextEntryId>>
            ELSE
            LET c == create_from_session(nextEntryId, updated.id, updated.patient_id,
                                         NoUser, updated.price, updated.date_time)
            IN
            IF c.err # OK \/ fail
            THEN /\ last' = Raised("update_status", session_id, new_status,
                                   IF c.err # OK THEN c.err ELSE Infrastructure)
                 /\ hist' = [hist EXCEPT ![session_id] =
                                [outcome |-> "partial", entry_id |-> NoId]]
                 /\ UNCHANGED <<entries, nextEntryId>>
            ELSE /\ entries' = entries \cup {c.e}
                 /\ nextEntryId' = nextEntryId + 1
                 /\ last' = Output(updated, new_status, previous_status, c.e)
                 /\ hist' = [hist EXCEPT ![session_id] =
                                [outcome |-> "ok", entry_id |-> c.e.id]]

UpdateStatus(session_id, new_status, notes) ==
    /\ execute(session_id, new_status, notes)
    /\ UNCHANGED <<entity, calls, patients, dash>>

(***************************************************************************)
(* UpdateSessionUseCase.execute, one whole call.  in: the input, each      *)
(* optional field a set of at most one value.                              *)
(***************************************************************************)
TheOne(S) == CHOOSE x \in S : TRUE

UpdatePatient(session, in) ==
    IF in.patient_id # {} /\ TheOne(in.patient_id) # session.patient_id
    THEN IF TheOne(in.patient_id) \notin KnownPatients
         THEN [err |-> Validation, s |-> session]
         ELSE [err |-> OK, s |-> [session EXCEPT !.patient_id = TheOne(in.patient_id)]]
    ELSE [err |-> OK, s |-> session]

UpdateDateTime_rescheduling(session, in, t) ==
    IF in.date_time # {}
    THEN [err |-> OK, s |-> [session EXCEPT !.date_time = TheOne(in.date_time),
                                            !.status = AGENDADA,
                                            !.updated_at = t]]
    ELSE [err |-> OK, s |-> session]

UpdateDateTime(session, in, t) ==
    IF in.date_time # {}
    THEN IF session.status = AGENDADA
         THEN reschedule(session, TheOne(in.date_time), t)
         ELSE [err |-> OK, s |-> [session EXCEPT !.date_time = TheOne(in.date_time),
                                                 !.updated_at = t]]
    ELSE [err |-> OK, s |-> session]

UpdatePrice(session, in, t) ==
    IF in.price # {}
    THEN [session EXCEPT !.price = TheOne(in.price), !.updated_at = t]
    ELSE session

UpdateNotes(session, in, t) ==
    IF in.notes # {}
    THEN [session EXCEPT !.notes = TheOne(in.notes), !.updated_at = t]
    ELSE session

UpdateSession(session_id, in) ==
    LET session == get_by_id(sessions, session_id) IN
    /\ IF session = NoSession
       THEN /\ last' = [op |-> "update_session", session_id |-> session_id, err |-> NotFound]
            /\ UNCHANGED <<sessions, now>>
       ELSE
       LET p == UpdatePatient(session, in)
           d == UpdateDateTime(p.s, in, now + 1)
       IN
       IF p.err # OK \/ d.err # OK
       THEN /\ last' = [op |-> "update_session", session_id |-> session_id,
                        err |-> IF p.err # OK THEN p.err ELSE d.err]
            /\ UNCHANGED <<sessions, now>>
       ELSE
       LET updated == UpdateNotes(UpdatePrice(d.s, in, now + 1), in, now + 1)
           stamped == updated.updated_at # session.updated_at
       IN
       /\ stamped => now < MaxNow
       /\ now' = IF stamped THEN now + 1 ELSE now
       /\ sessions' = update(sessions, session, updated)
       /\ last' = [op |-> "update_session", session_id |-> session_id, err |-> OK]
    /\ UNCHANGED <<entries, nextEntryId, hist, entity, calls, patients, dash>>

(***************************************************************************)
(* Payment and its reversal: the entity operation, then the store update.  *)
(***************************************************************************)
MarkPaid(e) ==
    LET r == mark_as_paid(e, now + 1) IN
    /\ e \in entries
    /\ IF r.err # OK
       THEN /\ last' = [op |-> "mark_paid", err |-> r.err, entry_id |-> e.id]
            /\ UNCHANGED <<entries, now>>
       ELSE /\ now < MaxNow
            /\ now' = now + 1
            /\ entries' = (entries \ {e}) \cup {r.e}
            /\ last' = [op |-> "mark_paid", err |-> OK, entry_id |-> e.id]
    /\ UNCHANGED <<sessions, nextEntryId, hist, entity, calls, patients, dash>>

MarkPending(e) ==
    LET r == mark_as_pending(e) IN
    /\ e \in entries
    /\ IF r.err # OK
       THEN /\ last' = [op |-> "mark_pending", err |-> r.err, entry_id |-> e.id]
            /\ UNCHANGED entries
       ELSE /\ entries' = (entries \ {e}) \cup {r.e}
            /\ last' = [op |-> "mark_pending", err |-> OK, entry_id |-> e.id]
    /\ UNCHANGED <<sessions, nextEntryId, now, hist, entity, calls, patients, dash>>

(***************************************************************************)
(* Properties.                                                             *)
(***************************************************************************)
Existing(session_id) == sessions[session_id] # NoSession

\* The step is a call of updateStatus with this target.
UpdateStatusStep(targets) ==
    /\ last'.op = "update_status"
    /\ last'.target \in targets

\* The last call was updateStatus with target completed and it returned.
CompletedNow ==
    /\ last.op = "update_status"
    /\ last.target = CONCLUIDA
    /\ last.err = OK

\* C1: after a successful updateStatus call with target completed on a
\* scheduled session of price P, exactly one FinancialEntry references the
\* session: amount P, pending, dated the session's date, with the session's
\* owner and patient.
C1_OneEntryWithOwner ==
    CompletedNow =>
        LET s == sessions[last.session_id]
            es == EntriesOf(entries, s.id)
        IN  /\ Cardinality(es) = 1
            /\ \A e \in es :
                /\ e.amount = s.price
                /\ e.status = PENDENTE
                /\ e.entry_date = DateOf(s.date_time)
                /\ e.patient_id = s.patient_id
                /\ e.user_id = s.user_id

\* What the call does establish: everything of C1 but the owner.
C1_OneEntryNoOwner ==
    CompletedNow =>
        LET s == sessions[last.session_id]
            es == EntriesOf(entries, s.id)
        IN  /\ Cardinality(es) = 1
            /\ \A e \in es :
                /\ e.id = last.financial_entry_id
                /\ e.amount = s.price
                /\ last.financial_entry_amount = s.price
                /\ e.status = PENDENTE
                /\ e.entry_date = DateOf(s.date_time)
                /\ e.patient_id = s.patient_id
                /\ e.user_id = NoUser

C1_Reached == CompletedNow /\ last.previous_status = AGENDADA

\* A call with target completed for a session whose earlier call with that
\* target returned an entry (a retry after success).
RetryAfterSuccess ==
    /\ UpdateStatusStep({CONCLUIDA})
    /\ hist[last'.session_id].outcome = "ok"

C3_AtMostOneEntryPerSession ==
    \A sid \in SessionIds : Cardinality(EntriesOf(entries, sid)) <= 1

\* updateStatus with target completed was just called for a session whose
\* entry is paid, so that the pending scan cannot see it.
C3_Reached ==
    /\ last.op = "update_status"
    /\ last.target = CONCLUIDA
    /\ \E e \in entries : e.session_id = last.session_id /\ e.status = PAGO

\* C5: when an updateStatus call with target completed persisted the
\* transition and failed to create the entry, a retried call succeeds and
\* leaves exactly one pending FinancialEntry for the session.
C5_RetryReconciles ==
    [][(UpdateStatusStep({CONCLUIDA}) /\ hist[last'.session_id].outcome = "partial") =>
        /\ last'.err = OK
        /\ Cardinality({e \in EntriesOf(entries', last'.session_id) :
                            e.status = PENDENTE}) = 1]_vars

\* C6: an updateStatus call with target cancelled or no_show leaves the set
\* of FinancialEntry records as it was and returns no financial entry id.
C6_NoEntryOnCancelOrNoShow ==
    [][UpdateStatusStep({CANCELADA, FALTOU}) =>
        /\ entries' = entries
        /\ last'.financial_entry_id = NoId
        /\ last'.financial_entry_amount = NoAmount]_vars

\* A session was just cancelled while another session has its entry.
C6_Reached ==
    /\ last.op = "update_status"
    /\ last.target = CANCELADA
    /\ last.err = OK
    /\ sessions[last.session_id].status = CANCELADA
    /\ entries # {}

(***************************************************************************)
(* The Session entity on its own: an object constructed with any status    *)
(* (the constructor takes the status as given), and its state-machine      *)
(* operations called on it.                                                *)
(***************************************************************************)
RescheduleInputs ==
    { [day |-> 7, hm |-> 10], [day |-> 30, hm |-> 9], [day |-> -400, hm |-> 10] }

InitEntity ==
    /\ sessions = [i \in SessionIds |-> NoSession]
    /\ entries = {}
    /\ nextEntryId = 1
    /\ now = 0
    /\ hist = [i \in SessionIds |-> NoPrior]
    /\ last = [op |-> "init", err |-> OK]
    /\ calls = [p \in Procs |-> Idle]
    /\ patients = {}
    /\ dash = Idle
    /\ entity \in
        { [NewSession(1, c.user_id, c.patient_id, c.date_time, c.price, c.notes)
              EXCEPT !.status = st] :
            c \in {x \in CreateInputs :
                     x.patient_id \in KnownPatients /\ validate_price(x.price)},
            st \in SessionStatus }

\* r: what the operation raised and the entity afterwards.
EntityCall(op, r) ==
    /\ r.s.updated_at # entity.updated_at => now < MaxNow
    /\ now' = IF r.s.updated_at # entity.updated_at THEN now + 1 ELSE now
    /\ entity' = r.s
    /\ last' = [op |-> op, err |-> r.err]
    /\ UNCHANGED <<sessions, entries, nextEntryId, hist, calls, patients, dash>>

EntityMarkAsRealized == EntityCall("mark_as_realized", mark_as_realized(entity, now + 1))

EntityMarkAsMissed == EntityCall("mark_as_missed", mark_as_missed(entity, now + 1))

EntityCancel == EntityCall("cancel", cancel(entity, now + 1))

EntityReschedule(new_date_time) ==
    EntityCall("reschedule", reschedule(entity, new_date_time, now + 1))

NextEntity ==
    \/ EntityMarkAsRealized
    \/ EntityMarkAsMissed
    \/ EntityCancel
    \/ \E d \in RescheduleInputs : EntityReschedule(d)

SpecEntity == InitEntity /\ [][NextEntity]_vars

TransitionOps == {"mark_as_realized", "mark_as_missed", "cancel"}

TargetOf(op) ==
    IF op = "mark_as_realized" THEN REALIZADA
    ELSE IF op = "mark_as_missed" THEN FALTOU
    ELSE CANCELADA

\* No state-machine operation succeeds on s.
Terminal(s) ==
    /\ mark_as_realized(s, now + 1).err # OK
    /\ mark_as_missed(s, now + 1).err # OK
    /\ cancel(s, now + 1).err # OK
    /\ \A d \in RescheduleInputs : reschedule(s, d, now + 1).err # OK

\* C7: on a scheduled session each of complete, cancel and markNoShow
\* succeeds and sets the state to completed, cancelled and no_show
\* respectively (stamping updated-at); the resulting state is terminal: no
\* further transition operation succeeds from it.
C7_ScheduledTransitionsToTerminal ==
    [][(last'.op \in TransitionOps /\ entity.status = AGENDADA) =>
        /\ last'.err = OK
        /\ entity'.status = TargetOf(last'.op)
        /\ entity'.status \in {REALIZADA, CANCELADA, FALTOU}
        /\ entity'.updated_at = now'
        /\ entity'.updated_at # entity.updated_at
        /\ Terminal(entity')]_vars

C7_Reached ==
    /\ last.op = "mark_as_missed"
    /\ last.err = OK
    /\ entity.status = FALTOU

\* C8, the entity's part: on a session that is not scheduled every
\* transition operation raises a business-rule violation and leaves the
\* session as it was.
C8_EntityRejectsWhenNotScheduled ==
    [][(last'.op \in TransitionOps \cup {"reschedule"} /\ entity.status # AGENDADA) =>
        /\ last'.err = BusinessRule
        /\ entity' = entity]_vars

\* C8: for a stored session that is not scheduled, updateStatus with any
\* transition target raises the business-rule violation of the state
\* machine and leaves the stored session as it was.
C8_UpdateStatusRejectsWhenNotScheduled ==
    [][(/\ UpdateStatusStep({CONCLUIDA, CANCELADA, FALTOU})
        /\ Existing(last'.session_id)
        /\ sessions[last'.session_id].status # AGENDADA) =>
        /\ last'.err = BusinessRule
        /\ sessions' = sessions]_vars

C10_DispatchesEachTarget ==
    [][(/\ UpdateStatusStep({CONCLUIDA, CANCELADA, FALTOU})
        /\ Existing(last'.session_id)
        /\ sessions[last'.session_id].status = AGENDADA
        /\ last'.err # Infrastructure) =>
        /\ last'.err = OK
        /\ sessions'[last'.session_id].status = last'.target
        /\ last'.previous_status = AGENDADA
        /\ last'.new_status = last'.target
        /\ (last'.financial_entry_id # NoId) = (last'.target = CONCLUIDA)
        /\ (last'.financial_entry_amount # NoAmount) = (last'.target = CONCLUIDA)]_vars

\* C11: updateStatus signals Not-Found whenever no session with the given
\* id is owned by the owner the call is made for, whether the id is absent
\* or belongs to another owner, and then changes no session and no entry.
\* execute takes no owner, so one call stands for the call of every owner.
C11_NotFoundUnlessOwned ==
    [][UpdateStatusStep(SessionStatus) =>
        \A owner \in Users :
            (~Existing(last'.session_id)
                \/ sessions[last'.session_id].user_id # owner) =>
                    /\ last'.err = NotFound
                    /\ sessions' = sessions
                    /\ entries' = entries]_vars

(***************************************************************************)
(* Concurrent calls of UpdateSessionStatusUseCase.execute.  Each request   *)
(* has its own database session and entity objects; a call gives up        *)
(* control at each await (get_by_id, update, list_pending, create), and    *)
(* the steps of two calls interleave.                                      *)
(***************************************************************************)
Finished(c) == c.pc \in {"done", "failed"}

Fail(c, err) == [pc |-> "failed", session_id |-> c.session_id,
                 new_status |-> c.new_status, err |-> err]

Done(c, entry) ==
    [pc |-> "done", session_id |-> c.session_id, new_status |-> c.new_status,
     err |-> OK, out |-> Output(c.session, c.new_status, c.previous_status, entry)]

\* session = await get_by_id(session_id); previous_status = session.status
Load(p, session_id, new_status, notes) ==
    LET session == get_by_id(sessions, session_id)
        c == [pc |-> "load", session_id |-> session_id, new_status |-> new_status]
    IN
    /\ calls[p].pc = "idle"
    /\ calls' = [calls EXCEPT ![p] =
            IF session = NoSession
            THEN Fail(c, NotFound)
            ELSE [pc |-> "apply", session_id |-> session_id,
                  new_status |-> new_status, notes |-> notes,
                  loaded |-> session, session |-> session,
                  previous_status |-> session.status]]
    /\ UNCHANGED <<sessions, entries, nextEntryId, now, hist, last, entity, patients, dash>>

\* _apply_status_transition(session, new_status); session.notes = notes
Apply(p) ==
    LET c == calls[p]
        r == apply_status_transition(c.session, c.new_status, now + 1)
        stamped == r.s.updated_at # c.session.updated_at
    IN
    /\ c.pc = "apply"
    /\ stamped => now < MaxNow
    /\ now' = IF stamped THEN now + 1 ELSE now
    /\ calls' = [calls EXCEPT ![p] =
            IF r.err # OK
            THEN Fail(c, r.err)
            ELSE [c EXCEPT !.pc = "persist", !.session = ApplyNotes(r.s, c.notes)]]
    /\ UNCHANGED <<sessions, entries, nextEntryId, hist, last, entity, patients, dash>>

\* await update(session)
Persist(p) ==
    LET c == calls[p] IN
    /\ c.pc = "persist"
    /\ sessions' = update(sessions, c.loaded, c.session)
    /\ calls' = [calls EXCEPT ![p] =
            IF CreatesEntry(c.new_status)
            THEN [c EXCEPT !.pc = "scan"]
            ELSE Done(c, NoEntry)]
    /\ UNCHANGED <<entries, nextEntryId, now, hist, last, entity, patients, dash>>

\* pending_entries = await list_pending(); existing = next(...)
Scan(p) ==
    LET c == calls[p] IN
    /\ c.pc = "scan"
    /\ \E existing \in FirstMatches(list_pending(entries), c.session.id) :
        calls' = [calls EXCEPT ![p] =
            IF existing # NoEntry
            THEN Done(c, existing)
            ELSE [c EXCEPT !.pc = "create"]]
    /\ UNCHANGED <<sessions, entries, nextEntryId, now, hist, last, entity, patients, dash>>

Create_rolling_back(p, fail) ==
    LET c == calls[p]
        n == create_from_session(nextEntryId, c.session.id, c.session.patient_id,
                                 NoUser, c.session.price, c.session.date_time)
    IN
    /\ c.pc = "create"
    /\ IF n.err # OK \/ fail
       THEN /\ calls' = [calls EXCEPT ![p] =
                    Fail(c, IF n.err # OK THEN n.err ELSE Infrastructure)]
            /\ sessions' = update(sessions, c.session, c.loaded)
            /\ UNCHANGED <<entries, nextEntryId>>
       ELSE /\ entries' = entries \cup {n.e}
            /\ nextEntryId' = nextEntryId + 1
            /\ calls' = [calls EXCEPT ![p] = Done(c, n.e)]
            /\ UNCHANGED sessions
    /\ UNCHANGED <<now, hist, last, entity, patients, dash>>

\* entry = create_from_session(...); return await create(entry)
Create(p, fail) ==
    LET c == calls[p]
        n == create_from_session(nextEntryId, c.session.id, c.session.patient_id,
                                 NoUser, c.session.price, c.session.date_time)
    IN
    /\ c.pc = "create"
    /\ IF n.err # OK \/ fail
       THEN /\ calls' = [calls EXCEPT ![p] =
                    Fail(c, IF n.err # OK THEN n.err ELSE Infrastructure)]
            /\ UNCHANGED <<entries, nextEntryId>>
       ELSE /\ entries' = entries \cup {n.e}
            /\ nextEntryId' = nextEntryId + 1
            /\ calls' = [calls EXCEPT ![p] = Done(c, n.e)]
    /\ UNCHANGED <<sessions, now, hist, last, entity, patients, dash>>

NextConc ==
    \/ \E c \in CreateInputs :
          CreateSession(c.user_id, c.patient_id, c.date_time, c.price, c.notes)
    \/ \E p \in Procs, sid \in SessionIds, st \in SessionStatus, n \in NotesInputs :
          Load(p, sid, st, n)
    \/ \E p \in Procs : Apply(p)
    \/ \E p \in Procs : Persist(p)
    \/ \E p \in Procs : Scan(p)
    \/ \E p \in Procs, f \in BOOLEAN : Create(p, f)

SpecConc == Init /\ [][NextConc]_vars

\* C4: when two updateStatus calls with target completed for the same
\* scheduled session run concurrently, whatever the interleaving of their
\* steps, they end with at most one FinancialEntry for that session.
C4_ConcurrentCompletesConverge ==
    (\A p \in Procs : Finished(calls[p])) =>
        \A sid \in SessionIds : Cardinality(EntriesOf(entries, sid)) <= 1

(***************************************************************************)
(* Reporting: FinancialReportUseCase and DashboardSummaryUseCase.  Like    *)
(* the session use cases they take no owner and pass none to the stores:   *)
(* their queries carry the period and the filters only.                    *)
(***************************************************************************)
ReportMaxPeriodDays == 365 * 5
DashboardMaxPeriodDays == 365
RecentLimit == 10
TodayLimit == 100
DashboardEntriesLimit == 100

\* The least number of days between a date and the same date five calendar
\* years later (such a span holds one or two 29ths of February).
FiveCalendarYears == 5 * 365 + 1

\* The sequences that list up to k elements of S by key descending; the
\* order among elements of equal key is the store's.
RECURSIVE TakeDescTied(_, _, _)
TakeDescTied(S, key, k) ==
    IF k = 0 \/ S = {}
    THEN {<< >>}
    ELSE LET top == {x \in S : \A y \in S : key[y] <= key[x]}
         IN  UNION {{<<x>> \o r : r \in TakeDescTied(S \ {x}, key, k - 1)} : x \in top}

\* ORDER BY key DESC LIMIT k: the orders the store can return, one when no
\* two rows have the same key (the row with i - 1 rows above it comes
\* i-th), any order of the rows of one key otherwise.
TakeDesc(S, key, k) ==
    IF \A x, y \in S : key[x] = key[y] => x = y
    THEN LET n == IF Cardinality(S) < k THEN Cardinality(S) ELSE k
             ranked == {<<Cardinality({y \in S : key[y] > key[x]}), x>> : x \in S}
         IN  {[i \in 1..n |-> (CHOOSE p \in ranked : p[1] = i - 1)[2]] \o << >>}
    ELSE TakeDescTied(S, key, k)

\* list_by_period as FinancialReportUseCase calls it: entry_date in
\* [start_date, end_date], the statuses of status_filter when it is given
\* (None and the empty list are both no filter), entry_date descending.
list_by_period(store, start_date, end_date, status_filter) ==
    LET found == {e \in store :
                    /\ e.entry_date >= start_date
                    /\ e.entry_date <= end_date
                    /\ (status_filter # {} => e.status \in status_filter)}
    IN  TakeDesc(found, [e \in found |-> e.entry_date], Cardinality(found))

FinancialEntrySummary(e) ==
    [id |-> e.id, session_id |-> e.session_id, patient_id |-> e.patient_id,
     entry_date |-> e.entry_date, amount |-> e.amount, status |-> e.status]

\* sum((e.amount for e in entries), Decimal("0"))
RECURSIVE SumAmounts(_)
SumAmounts(es) ==
    IF es = << >> THEN 0 ELSE Head(es).amount + SumAmounts(Tail(es))

WithStatus(es, status) == SelectSeq(es, LAMBDA e : e.status = status)

total_pending_of_all(es) == SumAmounts(es)

total_pending(es) == SumAmounts(WithStatus(es, PENDENTE))

total_paid(es) == SumAmounts(WithStatus(es, PAGO))

report_period_too_long_from_equal(start_date, end_date) ==
    IF start_date > end_date THEN "start_date"
    ELSE IF end_date - start_date >= ReportMaxPeriodDays THEN "period"
    ELSE None

\* FinancialReportUseCase._validate_period: the field the ValidationError
\* names, None when the period is accepted.
report_validate_period(start_date, end_date) ==
    IF start_date > end_date THEN "start_date"
    ELSE IF end_date - start_date > ReportMaxPeriodDays THEN "period"
    ELSE None

ReportRaised(err, field) ==
    [err |-> err, field |-> field, queried |-> err # Validation,
     entries |-> << >>, total_entries |-> NoAmount, total_amount |-> NoAmount,
     total_pending |-> NoAmount, total_paid |-> NoAmount]

FinancialReportOutput(es) ==
    [err |-> OK, field |-> None, queried |-> TRUE,
     entries |-> [i \in 1..Len(es) |-> FinancialEntrySummary(es[i])],
     total_entries |-> Len(es),
     total_amount |-> SumAmounts(es),
     total_pending |-> total_pending(es),
     total_paid |-> total_paid(es)]

\* FinancialReportUseCase.execute: what it can return or raise over a store.
financial_report(store, start_date, end_date, status_filter) ==
    LET field == report_validate_period(start_date, end_date) IN
    IF field # None
    THEN {ReportRaised(Validation, field)}
    ELSE {FinancialReportOutput(es) :
            es \in list_by_period(store, start_date, end_date, status_filter)}
         \cup {ReportRaised(Infrastructure, None)}

(***************************************************************************)
(* Stored records the reporting calls read.  A stored entry has an owner   *)
(* (the financial_entries rows carry user_id); a paid entry and a session  *)
(* that left AGENDADA carry the stamp of that change.                      *)
(***************************************************************************)
MaxStoredSessions == 12
MaxStoredDays == 11

StoredEntry(id, user_id, entry_date, amount, status) ==
    [id |-> id, session_id |-> id, patient_id |-> "p1", user_id |-> user_id,
     amount |-> amount, entry_date |-> entry_date, status |-> status,
     paid_at |-> IF status = PAGO THEN 1 ELSE NoTime]

\* One entry more than the dashboard lists, one a day from today on, of
\* different amounts, every third one paid.
ManyEntries ==
    {StoredEntry(k, "u1", k - 1, 100 + k, IF k % 3 = 0 THEN PAGO ELSE PENDENTE) :
        k \in 1..(DashboardEntriesLimit + 1)}

EntryStores ==
    LET e1 == StoredEntry(1, "u1", 0, 200, PENDENTE)
        e2 == StoredEntry(2, "u1", -10, 150, PAGO)
        e3 == StoredEntry(3, "u2", 0, 300, PENDENTE)
        e4 == StoredEntry(4, "u1", 300, 250, PENDENTE)
    IN  << {}, {e1, e2}, {e1, e2, e3}, {e1, e2, e3, e4} >>

\* Session k of the stored sessions: owners, statuses and days vary with k,
\* sessions k and k + MaxStoredDays fall on the same day and hour.
StoredSession(k) ==
    LET status == IF k % 4 = 1 THEN AGENDADA
                  ELSE IF k % 4 = 2 THEN REALIZADA
                  ELSE IF k % 4 = 3 THEN CANCELADA
                  ELSE FALTOU
    IN  [id |-> k,
         user_id |-> IF k % 3 = 0 THEN "u2" ELSE "u1",
         patient_id |-> IF k % 2 = 0 THEN "p2" ELSE "p1",
         date_time |-> [day |-> ((k * 5) % MaxStoredDays) - 5, hm |-> 10],
         price |-> 200, duration_minutes |-> DefaultDuration,
         status |-> status, notes |-> None,
         updated_at |-> IF status = AGENDADA THEN NoTime ELSE 1]

SessionCounts == <<0, 2, RecentLimit + 1, MaxStoredSessions>>

SessionStores == [i \in 1..4 |-> [k \in 1..SessionCounts[i] |-> StoredSession(k)]]

\* The stores the reporting calls are made on: the i-th session store with
\* the i-th entry store, and the full store of each kind with the empty
\* store of the other.
StoredPairs == {<<i, i>> : i \in 1..4} \cup {<<1, 4>>, <<4, 1>>}

StatusFilters == { {}, {PENDENTE}, {PAGO}, {PENDENTE, PAGO} }

ReportPeriods ==
    { [start_date |-> 0, end_date |-> 0],
      [start_date |-> -10, end_date |-> 0],
      [start_date |-> -9, end_date |-> 300],
      [start_date |-> 1, end_date |-> 0],
      [start_date |-> 0, end_date |-> ReportMaxPeriodDays],
      [start_date |-> 0, end_date |-> FiveCalendarYears] }

InitReporting ==
    /\ \E pair \in StoredPairs :
          /\ sessions = SessionStores[pair[1]]
          /\ entries = EntryStores[pair[2]]
    /\ nextEntryId = Cardinality(entries) + 1
    /\ now = 1
    /\ hist = [i \in SessionIds |-> NoPrior]
    /\ last = [op |-> "init", err |-> OK]
    /\ entity = NoSession
    /\ calls = [p \in Procs |-> Idle]
    /\ patients = {}
    /\ dash = Idle

InFlight == dash.pc = "gather"

\* A call of FinancialReportUseCase.execute.
FinancialReport(start_date, end_date, status_filter) ==
    /\ ~InFlight
    /\ \E out \in financial_report(entries, start_date, end_date, status_filter) :
        last' = [op |-> "financial_report",
                 start_date |-> start_date, end_date |-> end_date,
                 status_filter |-> status_filter, out |-> out, err |-> out.err]
    /\ dash' = Idle
    /\ UNCHANGED <<sessions, entries, nextEntryId, now, hist, entity, calls, patients>>

(***************************************************************************)
(* Session and patient queries of the dashboard.  An optional filter is    *)
(* the empty set when it is not given.                                     *)
(***************************************************************************)
Rows(store) == {store[i] : i \in DOMAIN store} \ {NoSession}

\* order of two datetimes as a number
Ord(date_time) == date_time.day * 24 + date_time.hm

list_recent(store, limit) ==
    LET found == Rows(store)
    IN  TakeDesc(found, [s \in found |-> Ord(s.date_time)], limit)

list_all(store, patient_id, status, start_date, end_date, limit) ==
    LET found == {s \in Rows(store) :
                    /\ \A p \in patient_id : s.patient_id = p
                    /\ \A st \in status : s.status = st
                    /\ \A d \in start_date : DateOf(s.date_time) >= d
                    /\ \A d \in end_date : DateOf(s.date_time) <= d}
    IN  TakeDesc(found, [s \in found |-> Ord(s.date_time)], limit)

SessionSummary(s) ==
    [id |-> s.id, patient_id |-> s.patient_id, date_time |-> s.date_time,
     price |-> s.price, status |-> s.status, notes |-> s.notes]

Summaries(ss) == [i \in 1..Len(ss) |-> SessionSummary(ss[i])]

\* PatientRepository.list_all(active_only)
list_patients(store, active_only) ==
    IF active_only THEN {p \in store : p.active} ELSE store

PatientsSummary_inactive_counted(all_patients, active_patients) ==
    [total_patients |-> Cardinality(all_patients),
     active_patients |-> Cardinality(active_patients),
     inactive_patients |-> Cardinality(all_patients)]

\* total = len(all_patients); active = len(active_patients);
\* inactive = total - active
PatientsSummary(all_patients, active_patients) ==
    [total_patients |-> Cardinality(all_patients),
     active_patients |-> Cardinality(active_patients),
     inactive_patients |-> Cardinality(all_patients) - Cardinality(active_patients)]

dashboard_period_too_long_unchecked(start_date, end_date) ==
    IF start_date > end_date THEN "start_date" ELSE None

\* DashboardSummaryUseCase._validate_period
dashboard_validate_period(start_date, end_date) ==
    IF start_date > end_date THEN "start_date"
    ELSE IF end_date - start_date > DashboardMaxPeriodDays THEN "period"
    ELSE None

Take(s, k) == SubSeq(s, 1, IF Len(s) < k THEN Len(s) ELSE k)

FinancialReportData_totals_of_listed(out, start_date, end_date) ==
    LET listed == Take(out.entries, DashboardEntriesLimit) IN
    [total_revenue |-> SumAmounts(listed), total_paid |-> total_paid(listed),
     total_pending |-> total_pending(listed), entries |-> listed,
     period_start |-> start_date, period_end |-> end_date]

\* entries=report_output.entries[:100]
FinancialReportData(out, start_date, end_date) ==
    [total_revenue |-> out.total_amount, total_paid |-> out.total_paid,
     total_pending |-> out.total_pending,
     entries |-> Take(out.entries, DashboardEntriesLimit),
     period_start |-> start_date, period_end |-> end_date]

(***************************************************************************)
(* DashboardSummaryUseCase.execute.  After the period is validated the     *)
(* four coroutines run under asyncio.gather: each gives up control at its  *)
(* store queries, which complete in any order; the patients coroutine      *)
(* makes two.  The first exception ends the call; the response is built    *)
(* when the last result arrives.                                           *)
(***************************************************************************)
Pending == [st |-> "pending"]

Got(v) == [st |-> "done", v |-> v]

SubQueries == {"report", "today", "recent", "patients"}

AllDone(d) == \A q \in SubQueries : d[q].st = "done"

DashboardSummaryOutput(d) ==
    [financial_report |-> FinancialReportData(d.report.v, d.start_date, d.end_date),
     today_sessions |-> d.today.v,
     recent_sessions |-> d.recent.v,
     patients_summary |-> d.patients.v]

DashRaised(d, err, field) ==
    [pc |-> "failed", start_date |-> d.start_date,
     end_date |-> d.end_date, changed |-> d.changed, issued |-> d.issued,
     err |-> err, field |-> field]

\* the gather returns when the last of the four results is in
Settle(d) ==
    IF AllDone(d)
    THEN [pc |-> "done", start_date |-> d.start_date,
          end_date |-> d.end_date, changed |-> d.changed, issued |-> d.issued,
          err |-> OK, response |-> DashboardSummaryOutput(d)]
    ELSE d

ListFailed_swallowed(d, q) == Settle([d EXCEPT ![q] = Got(<< >>)])

\* a list query of sub-query q raised: gather raises it to the caller
ListFailed(d, q) == DashRaised(d, Infrastructure, None)

DashFrame_activating ==
    /\ patients' = {[p EXCEPT !.active = TRUE] : p \in patients}
    /\ UNCHANGED <<sessions, entries, nextEntryId, now, hist, last, entity, calls>>

\* the sub-queries call list methods only
DashFrame == UNCHANGED <<sessions, entries, nextEntryId, now, hist, last, entity,
                         calls, patients>>

DashboardPeriods ==
    { [start_date |-> -10, end_date |-> 300],
      [start_date |-> 1, end_date |-> 0],
      [start_date |-> 0, end_date |-> DashboardMaxPeriodDays],
      [start_date |-> 0, end_date |-> DashboardMaxPeriodDays + 1] }

\* execute up to the gather: the period is validated, then the four
\* coroutines are created.
DashboardSummary(start_date, end_date) ==
    LET field == dashboard_validate_period(start_date, end_date)
        d == [pc |-> "gather", start_date |-> start_date,
              end_date |-> end_date, changed |-> FALSE, issued |-> {},
              report |-> Pending, today |-> Pending, recent |-> Pending,
              all_patients |-> Pending, patients |-> Pending]
    IN
    /\ ~InFlight
    /\ dash' = IF field # None THEN DashRaised(d, Validation, field) ELSE d
    /\ last' = [op |-> "dashboard_summary", err |-> OK]
    /\ UNCHANGED <<sessions, entries, nextEntryId, now, hist, entity, calls, patients>>

\* _get_financial_report: FinancialReportUseCase.execute without a filter
GetFinancialReport ==
    /\ InFlight
    /\ dash.report.st = "pending"
    /\ \E out \in financial_report(entries, dash.start_date, dash.end_date, {}) :
        LET d == [dash EXCEPT !.issued = @ \cup
                        (IF out.queried THEN {"list_by_period"} ELSE {})]
        IN  dash' = IF out.err # OK
                    THEN DashRaised(d, out.err, out.field)
                    ELSE Settle([d EXCEPT !.report = Got(out)])
    /\ DashFrame

\* _get_today_sessions: the scheduled sessions dated today
GetTodaySessions(fail) ==
    /\ InFlight
    /\ dash.today.st = "pending"
    /\ LET d == [dash EXCEPT !.issued = @ \cup {"list_all"}] IN
       IF fail
       THEN dash' = ListFailed(d, "today")
       ELSE \E ss \in list_all(sessions, {}, {AGENDADA}, {Today}, {Today}, TodayLimit) :
                dash' = Settle([d EXCEPT !.today = Got(Summaries(ss))])
    /\ DashFrame

\* _get_recent_sessions
GetRecentSessions(fail) ==
    /\ InFlight
    /\ dash.recent.st = "pending"
    /\ LET d == [dash EXCEPT !.issued = @ \cup {"list_recent"}] IN
       IF fail
       THEN dash' = ListFailed(d, "recent")
       ELSE \E ss \in list_recent(sessions, RecentLimit) :
                dash' = Settle([d EXCEPT !.recent = Got(Summaries(ss))])
    /\ DashFrame

\* _get_patients_summary, first query: list_all(active_only=False)
ListAllPatients(fail) ==
    /\ InFlight
    /\ dash.all_patients.st = "pending"
    /\ LET d == [dash EXCEPT !.issued = @ \cup {"patients_all"}] IN
       dash' = IF fail
               THEN DashRaised(d, Infrastructure, None)
               ELSE [d EXCEPT !.all_patients = Got(list_patients(patients, FALSE))]
    /\ DashFrame

\* _get_patients_summary, second query: list_all(active_only=True), and
\* the summary of the two results
ListActivePatients(fail) ==
    /\ InFlight
    /\ dash.all_patients.st = "done"
    /\ dash.patients.st = "pending"
    /\ LET d == [dash EXCEPT !.issued = @ \cup {"patients_active"}] IN
       dash' = IF fail
               THEN DashRaised(d, Infrastructure, None)
               ELSE Settle([d EXCEPT !.patients =
                        Got(PatientsSummary(d.all_patients.v,
                                            list_patients(patients, TRUE)))])
    /\ DashFrame

(***************************************************************************)
(* Patients: CreatePatientUseCase.execute, and Patient.deactivate /        *)
(* Patient.activate followed by the repository's update.                   *)
(***************************************************************************)
PatientIds == KnownPatients

\* a dashboard call in flight has seen the stores change under it; the
\* outcome of a finished call is kept until the next operation
Touched == IF InFlight THEN [dash EXCEPT !.changed = TRUE] ELSE Idle

PatientFrame == UNCHANGED <<sessions, entries, nextEntryId, now, hist, last, entity, calls>>

CreatePatient(id) ==
    /\ \A p \in patients : p.id # id
    /\ patients' = patients \cup {[id |-> id, active |-> TRUE]}
    /\ dash' = Touched
    /\ PatientFrame

DeactivatePatient(p) ==
    /\ p \in patients
    /\ patients' = (patients \ {p}) \cup {[p EXCEPT !.active = FALSE]}
    /\ dash' = Touched
    /\ PatientFrame

ActivatePatient(p) ==
    /\ p \in patients
    /\ patients' = (patients \ {p}) \cup {[p EXCEPT !.active = TRUE]}
    /\ dash' = Touched
    /\ PatientFrame

NextReporting ==
    \/ \E period \in ReportPeriods, status_filter \in StatusFilters :
          FinancialReport(period.start_date, period.end_date, status_filter)
    \/ \E period \in DashboardPeriods :
          DashboardSummary(period.start_date, period.end_date)
    \/ GetFinancialReport
    \/ \E fail \in BOOLEAN : GetTodaySessions(fail)
    \/ \E fail \in BOOLEAN : GetRecentSessions(fail)
    \/ \E fail \in BOOLEAN : ListAllPatients(fail)
    \/ \E fail \in BOOLEAN : ListActivePatients(fail)
    \/ \E id \in PatientIds : CreatePatient(id)
    \/ \E p \in patients : DeactivatePatient(p)
    \/ \E p \in patients : ActivatePatient(p)

SpecReporting == InitReporting /\ [][NextReporting]_vars

(***************************************************************************)
(* Dashboard summaries over a store of more entries than the summary       *)
(* lists, with patient operations between the steps of a call.             *)
(***************************************************************************)
InitManyEntries ==
    /\ sessions = SessionStores[2]
    /\ entries = ManyEntries
    /\ nextEntryId = Cardinality(entries) + 1
    /\ now = 1
    /\ hist = [i \in SessionIds |-> NoPrior]
    /\ last = [op |-> "init", err |-> OK]
    /\ entity = NoSession
    /\ calls = [p \in Procs |-> Idle]
    /\ patients = {}
    /\ dash = Idle

NextDashboard ==
    \/ \E period \in DashboardPeriods :
          DashboardSummary(period.start_date, period.end_date)
    \/ GetFinancialReport
    \/ \E fail \in BOOLEAN : GetTodaySessions(fail)
    \/ \E fail \in BOOLEAN : GetRecentSessions(fail)
    \/ \E fail \in BOOLEAN : ListAllPatients(fail)
    \/ \E fail \in BOOLEAN : ListActivePatients(fail)
    \/ \E id \in PatientIds : CreatePatient(id)
    \/ \E p \in patients : DeactivatePatient(p)
    \/ \E p \in patients : ActivatePatient(p)

SpecDashboard == InitManyEntries /\ [][NextDashboard]_vars

(***************************************************************************)
(* Properties of the reporting calls                                       *)
(***************************************************************************)
OwnedEntries(store, owner) == {e \in store : e.user_id = owner}

OwnedSessions(store, owner) ==
    [i \in DOMAIN store |->
        IF store[i] # NoSession /\ store[i].user_id = owner
        THEN store[i] ELSE NoSession]

ReportReturned == last.op = "financial_report" /\ last.err = OK

DashReturned == dash.pc = "done" /\ ~dash.changed

\* C12: the results of an owner's operations depend on that owner's
\* records only: the financial report an owner gets is the report over
\* the owner's entries, and the recent sessions of the dashboard summary
\* are the recent ones among the owner's sessions, whatever records the
\* other owners hold.
C12_ResultsIgnoreOtherOwners ==
    \A owner \in Users :
        /\ ReportReturned =>
              last.out \in financial_report(OwnedEntries(entries, owner),
                              last.start_date, last.end_date, last.status_filter)
        /\ DashReturned =>
              \E ss \in list_recent(OwnedSessions(sessions, owner), RecentLimit) :
                  dash.response.recent_sessions = Summaries(ss)

\* C12 (what the code does): every owner gets the report over the entries
\* of all owners and the recent sessions among the sessions of all owners.
C12_ResultsOverAllOwners ==
    /\ ReportReturned =>
          last.out \in financial_report(entries, last.start_date, last.end_date,
                                        last.status_filter)
    /\ DashReturned =>
          \E ss \in list_recent(sessions, RecentLimit) :
              dash.response.recent_sessions = Summaries(ss)

\* C12: a report has returned entries of two owners.
C12_Reached ==
    /\ ReportReturned
    /\ \E i, j \in 1..Len(last.out.entries) :
          \E e1 \in entries, e2 \in entries :
              /\ e1.id = last.out.entries[i].id
              /\ e2.id = last.out.entries[j].id
              /\ e1.user_id # e2.user_id

\* the sum of the amounts of the entries at the positions I of es
RECURSIVE AmountAt(_, _)
AmountAt(es, I) ==
    IF I = {} THEN 0
    ELSE LET i == CHOOSE i \in I : TRUE
         IN  es[i].amount + AmountAt(es, I \ {i})

\* C13: a report over the entries the period query returned counts them in
\* total_entries, sums all their amounts in total_amount, the amounts of
\* the pending ones in total_pending and of the paid ones in total_paid;
\* over no entries the count and the three sums are zero, not null.
C13_ReportTotals ==
    ReportReturned =>
        LET es == last.out.entries
            all == 1..Len(es)
        IN  /\ last.out.total_entries = Len(es)
            /\ last.out.total_amount = AmountAt(es, all)
            /\ last.out.total_pending =
                  AmountAt(es, {i \in all : es[i].status = PENDENTE})
            /\ last.out.total_paid =
                  AmountAt(es, {i \in all : es[i].status = PAGO})
            /\ {last.out.total_amount, last.out.total_pending,
                last.out.total_paid} \cap {NoAmount} = {}
            /\ es = << >> =>
                  /\ last.out.total_entries = 0
                  /\ last.out.total_amount = 0
                  /\ last.out.total_pending = 0
                  /\ last.out.total_paid = 0

\* C13: a report has returned pending and paid entries together.
C13_Reached ==
    /\ ReportReturned
    /\ \E i, j \in 1..Len(last.out.entries) :
          /\ last.out.entries[i].status = PENDENTE
          /\ last.out.entries[j].status = PAGO
    /\ last.out.total_pending > 0
    /\ last.out.total_paid > 0
    /\ last.out.total_amount = last.out.total_pending + last.out.total_paid

\* C13: a report over no matching entry has returned.
C13_ReachedEmpty ==
    /\ ReportReturned
    /\ last.out.entries = << >>
    /\ last.out.total_amount = 0

ReportCalled == last.op = "financial_report"

ReportRejected(field) ==
    /\ last.err = Validation
    /\ last.out.field = field
    /\ ~last.out.queried

C14_ReachedLongest ==
    /\ ReportReturned
    /\ last.end_date - last.start_date = 365 * 5

Returned == {last.out.entries[i].id : i \in 1..Len(last.out.entries)}

InPeriod(e) ==
    /\ last.start_date <= e.entry_date
    /\ e.entry_date <= last.end_date

InFilter(e) == last.status_filter # {} => e.status \in last.status_filter

\* C15: the entries of a report are exactly the owner's entries dated in
\* [start_date, end_date] whose status is in the filter when one is given;
\* none of them is missing, and no entry out of the range, out of the
\* filter or of another owner is listed or counted.
C15_ExactlyTheOwnersEntries ==
    \A owner \in Users :
        ReportReturned =>
            LET matching == {e \in entries :
                                e.user_id = owner /\ InPeriod(e) /\ InFilter(e)}
            IN  /\ Returned = {e.id : e \in matching}
                /\ last.out.total_entries = Cardinality(matching)

\* C15 (what the code does): the entries of a report are exactly the
\* entries of all owners in the range and in the filter.
C15_ExactlyTheMatchingEntries ==
    ReportReturned =>
        LET matching == {e \in entries : InPeriod(e) /\ InFilter(e)}
        IN  /\ Returned = {e.id : e \in matching}
            /\ Len(last.out.entries) = Cardinality(matching)
            /\ last.out.total_entries = Cardinality(matching)

\* C15: a filtered report has returned an entry and left out one for its
\* date and one for its status.
C15_Reached ==
    /\ ReportReturned
    /\ last.status_filter # {}
    /\ Returned # {}
    /\ \E e \in entries : ~InPeriod(e) /\ InFilter(e)
    /\ \E e \in entries : InPeriod(e) /\ ~InFilter(e)

\* C16: the patients summary of the dashboard satisfies
\* total = active + inactive, as soon as it is computed and in the
\* response, whatever patients were created, activated and deactivated
\* before and during the call; over a store that did not change during
\* the call the three numbers count the stored patients.
C16_PatientsSummaryAddsUp ==
    /\ (dash.pc = "gather" /\ dash.patients.st = "done") =>
          dash.patients.v.total_patients =
              dash.patients.v.active_patients + dash.patients.v.inactive_patients
    /\ dash.pc = "done" =>
          LET s == dash.response.patients_summary
          IN  /\ s.total_patients = s.active_patients + s.inactive_patients
              /\ ~dash.changed =>
                    /\ s.total_patients = Cardinality(patients)
                    /\ s.active_patients = Cardinality({p \in patients : p.active})
                    /\ s.inactive_patients = Cardinality({p \in patients : ~p.active})

\* C16: a dashboard summary has counted an active and an inactive patient.
C16_Reached ==
    /\ dash.pc = "done"
    /\ dash.response.patients_summary.total_patients = 2
    /\ dash.response.patients_summary.active_patients = 1
    /\ dash.response.patients_summary.inactive_patients = 1

\* C16: patients activated between the two patient queries of a call make
\* the summary count more active patients than patients.
C16_ReachedNegative ==
    /\ dash.pc = "done"
    /\ dash.response.patients_summary.inactive_patients < 0

Recent == dash.response.recent_sessions

RecentIds == {Recent[i].id : i \in 1..Len(Recent)}

RecentIsSortedAndShort ==
    /\ Len(Recent) <= 10
    /\ \A i, j \in 1..Len(Recent) :
          i < j => Ord(Recent[i].date_time) >= Ord(Recent[j].date_time)

\* no session of among that was left out is later than a listed one
NoLaterOmitted(among) ==
    \A s \in among :
        s.id \notin RecentIds =>
            \A i \in 1..Len(Recent) : Ord(s.date_time) <= Ord(Recent[i].date_time)

\* C17: for every owner the recent sessions of the dashboard summary are
\* at most 10, sorted by date-time descending, all of that owner, and no
\* session of the owner that was left out is later than a listed one.
C17_RecentSessionsOfOwner ==
    \A owner \in Users :
        dash.pc = "done" =>
            /\ RecentIsSortedAndShort
            /\ \A id \in RecentIds : sessions[id].user_id = owner
            /\ NoLaterOmitted(Rows(OwnedSessions(sessions, owner)))

\* C17 (what the code does): the recent sessions are at most 10, sorted by
\* date-time descending, and the latest among the sessions of all owners:
\* none left out is later than a listed one, and one is left out only when
\* 10 are listed.
C17_RecentSessionsOfAll ==
    dash.pc = "done" =>
        /\ RecentIsSortedAndShort
        /\ \A id \in RecentIds : id \in DOMAIN sessions
        /\ NoLaterOmitted(Rows(sessions))
        /\ Cardinality(RecentIds) = Len(Recent)
        /\ Len(Recent) < 10 => RecentIds = DOMAIN sessions

\* C17: a dashboard summary has listed 10 sessions of two owners out of
\* more than 10.
C17_Reached ==
    /\ dash.pc = "done"
    /\ Len(Recent) = 10
    /\ Cardinality(DOMAIN sessions) > 10
    /\ \E i, j \in RecentIds : sessions[i].user_id # sessions[j].user_id

DashRejected(field) ==
    /\ dash.pc = "failed"
    /\ dash.err = Validation
    /\ dash.field = field
    /\ dash.issued = {}

\* C18: the dashboard summary validates the period before any query: with
\* start_date > end_date it fails with a validation error naming
\* start_date, with a span of more than 365 days it fails with a
\* validation error naming period, and in both cases none of the
\* sub-queries is issued; a period of at most 365 days is not rejected.
C18_DashboardPeriodValidated ==
    dash.pc # "idle" =>
        LET span == dash.end_date - dash.start_date IN
        /\ dash.start_date > dash.end_date => DashRejected("start_date")
        /\ (dash.start_date <= dash.end_date /\ span > 365) =>
              DashRejected("period")
        /\ (dash.start_date <= dash.end_date /\ span <= 365) =>
              ~(dash.pc = "failed" /\ dash.err = Validation)

\* C18: a dashboard summary over 366 days has been rejected.
C18_Reached ==
    /\ dash.pc # "idle"
    /\ dash.end_date - dash.start_date = 366
    /\ DashRejected("period")

\* C18: a dashboard summary over exactly 365 days has been answered.
C18_ReachedLongest ==
    /\ dash.pc = "done"
    /\ dash.end_date - dash.start_date = 365

StoreQueries ==
    {"list_by_period", "list_all", "list_recent", "patients_all", "patients_active"}

SubQueryFailed ==
    \/ GetTodaySessions(TRUE)
    \/ GetRecentSessions(TRUE)
    \/ ListAllPatients(TRUE)
    \/ ListActivePatients(TRUE)
    \/ (GetFinancialReport /\ dash'.pc = "failed")

\* the response over the stores as they are, whatever the order in which
\* the sub-queries ran
ComposedFromStores ==
    LET r == dash.response IN
    /\ \E out \in financial_report(entries, dash.start_date, dash.end_date, {}) :
          /\ out.err = OK
          /\ r.financial_report = FinancialReportData(out, dash.start_date, dash.end_date)
    /\ \E ss \in list_all(sessions, {}, {AGENDADA}, {Today}, {Today}, 100) :
          r.today_sessions = Summaries(ss)
    /\ \E ss \in list_recent(sessions, 10) : r.recent_sessions = Summaries(ss)
    /\ r.patients_summary =
          [total_patients |-> Cardinality(patients),
           active_patients |-> Cardinality({p \in patients : p.active}),
           inactive_patients |-> Cardinality({p \in patients : ~p.active})]

\* C19: the four sub-queries of the dashboard summary run in any order and
\* the response is composed when all of them have completed: it exists
\* only after every store query was issued, over stores that did not
\* change during the call it is the response composed from the stores
\* whatever the order was, and when a sub-query fails the call ends with
\* that error and without a response.
C19_GatherAllOrFail ==
    [][/\ SubQueryFailed =>
            /\ dash'.pc = "failed"
            /\ dash'.err = Infrastructure
            /\ "response" \notin DOMAIN dash'
       /\ dash'.pc = "failed" => "response" \notin DOMAIN dash'
       /\ (dash.pc = "gather" /\ dash'.pc = "done") =>
            /\ dash'.issued = StoreQueries
            /\ dash'.err = OK
            /\ ~dash'.changed => ComposedFromStores'
       /\ (dash.pc = "gather" /\ dash'.pc = "gather") =>
            "response" \notin DOMAIN dash']_vars

\* C19: a dashboard summary over unchanged stores has answered, after all
\* its store queries, with sessions of today, recent sessions and patients.
C19_Reached ==
    /\ dash.pc = "done"
    /\ ~dash.changed
    /\ dash.issued = StoreQueries
    /\ Len(dash.response.recent_sessions) > 0
    /\ Len(dash.response.today_sessions) > 0
    /\ dash.response.patients_summary.total_patients > 0

\* C19: a dashboard summary has failed in its last sub-query.
C19_ReachedFailed ==
    /\ dash.pc = "failed"
    /\ dash.err = Infrastructure
    /\ dash.issued = StoreQueries

\* a step of a financial report or of a dashboard summary: the outcome of
\* a call or the progress of the call in flight changes other than by a
\* patient operation
ReportingStep == last' # last \/ dash' # Touched

\* C20: the financial report and the dashboard summary only read: no step
\* of theirs, in a call that is answered or in one that fails, changes the
\* stored patients, sessions or entries or any of their fields.
C20_ReportingOnlyReads ==
    [][ReportingStep =>
           /\ patients' = patients
           /\ sessions' = sessions
           /\ entries' = entries
           /\ nextEntryId' = nextEntryId]_vars

\* C20: a dashboard summary has been answered over stores that hold
\* sessions, entries and an inactive patient.
C20_Reached ==
    /\ dash.pc = "done"
    /\ DOMAIN sessions # {}
    /\ entries # {}
    /\ \E p \in patients : ~p.active

\* C20: a dashboard summary has failed over stores that hold
\* sessions, entries and an inactive patient.
C20_ReachedFailed ==
    /\ dash.pc = "failed"
    /\ DOMAIN sessions # {}
    /\ entries # {}
    /\ \E p \in patients : ~p.active

(***************************************************************************)
(* Properties of payment, of the session update and of the stored records  *)
(***************************************************************************)
EntryWithId(store, id) == CHOOSE e \in store : e.id = id

\* C21: markPaid on a pending entry sets its status to paid and stamps
\* paid_at with the time of the call; markPaid on an entry that is already
\* paid raises a business-rule error and leaves the entry, status and
\* paid_at included, as it was.
C21_MarkPaid ==
    [][last'.op = "mark_paid" =>
          LET e == EntryWithId(entries, last'.entry_id) IN
          IF e.status = PENDENTE
          THEN /\ last'.err = OK
               /\ now' > now
               /\ entries' = (entries \ {e}) \cup
                                {[e EXCEPT !.status = PAGO, !.paid_at = now']}
          ELSE /\ last'.err = BusinessRule
               /\ entries' = entries]_vars

\* C21: a pending entry has been paid.
C21_Reached ==
    /\ last.op = "mark_paid"
    /\ last.err = OK
    /\ EntryWithId(entries, last.entry_id).status = PAGO
    /\ EntryWithId(entries, last.entry_id).paid_at # NoTime

\* C21: markPaid on a paid entry has been refused.
C21_ReachedRefused ==
    /\ last.op = "mark_paid"
    /\ last.err = BusinessRule
    /\ EntryWithId(entries, last.entry_id).status = PAGO

\* C22: markPending on a paid entry sets its status to pending and clears
\* paid_at, so that the entry is again as it was before it was paid;
\* markPending on a pending entry raises a business-rule error and changes
\* nothing.  After every step paid_at is set exactly in the paid entries.
C22_MarkPendingReverses ==
    [][/\ last'.op = "mark_pending" =>
            LET e == EntryWithId(entries, last'.entry_id) IN
            IF e.status = PAGO
            THEN /\ last'.err = OK
                 /\ entries' = (entries \ {e}) \cup
                        {[e EXCEPT !.status = PENDENTE, !.paid_at = NoTime]}
                 /\ now' = now
            ELSE /\ last'.err = BusinessRule
                 /\ entries' = entries
       /\ \A e \in entries' : e.paid_at # NoTime <=> e.status = PAGO]_vars

\* C22: an entry that was paid has been returned to pending.
C22_Reached ==
    /\ last.op = "mark_pending"
    /\ last.err = OK
    /\ EntryWithId(entries, last.entry_id).status = PENDENTE
    /\ EntryWithId(entries, last.entry_id).paid_at = NoTime

\* C22: markPending on a pending entry has been refused.
C22_ReachedRefused ==
    /\ last.op = "mark_pending"
    /\ last.err = BusinessRule

\* C23: the date-time of a session changes only while the session is
\* scheduled: no step changes the date-time of a stored session that is
\* completed, cancelled or no-show.
C23_TerminalDateTimeIsFrozen ==
    [][\A sid \in SessionIds :
          (Existing(sid) /\ sessions[sid].status # AGENDADA) =>
              sessions'[sid].date_time = sessions[sid].date_time]_vars

\* C23 (what the code does): the entity's reschedule is refused on a
\* session that is not scheduled, but the session update use case writes
\* the date-time of such a session directly, and never fails on it.
C23_UpdateRewritesTerminalDateTime ==
    [][\A sid \in SessionIds :
          (/\ Existing(sid)
           /\ sessions[sid].status # AGENDADA
           /\ sessions'[sid].date_time # sessions[sid].date_time) =>
              /\ last'.op = "update_session"
              /\ last'.err = OK
              /\ sessions'[sid].status = sessions[sid].status]_vars

\* C23: a session update has returned on a session that is not scheduled
\* and that carries the date-time of an update request.
C23_Reached ==
    /\ last.op = "update_session"
    /\ last.err = OK
    /\ sessions[last.session_id].status # AGENDADA
    /\ \E in \in UpdateInputs : sessions[last.session_id].date_time \in in.date_time

\* the sum of the amounts of the entries of S
RECURSIVE AmountOf(_)
AmountOf(S) ==
    IF S = {} THEN 0
    ELSE LET e == CHOOSE e \in S : TRUE IN e.amount + AmountOf(S \ {e})

InDashboardPeriod ==
    {e \in entries : dash.start_date <= e.entry_date /\ e.entry_date <= dash.end_date}

\* C24: the financial report of a dashboard summary lists the first 100
\* entries of the report over the requested period, in the report's order
\* (entry date descending), while total revenue, total paid and total
\* pending are the sums over all the entries of the period, listed or not.
C24_OnlyTheListIsTruncated ==
    dash.pc = "done" =>
        LET r == dash.response.financial_report
            all == InDashboardPeriod
            n == IF Cardinality(all) < 100 THEN Cardinality(all) ELSE 100
        IN  /\ Len(r.entries) = n
            /\ \E out \in financial_report(entries, dash.start_date, dash.end_date, {}) :
                  /\ out.err = OK
                  /\ \A i \in 1..n : r.entries[i] = out.entries[i]
            /\ \A i \in 1..n :
                  \A e \in all :
                      e.id \notin {r.entries[j].id : j \in 1..n} =>
                          e.entry_date <= r.entries[i].entry_date
            /\ r.total_revenue = AmountOf(all)
            /\ r.total_paid = AmountOf({e \in all : e.status = PAGO})
            /\ r.total_pending = AmountOf({e \in all : e.status = PENDENTE})

\* C24: a dashboard summary has listed 100 entries of a period that holds
\* more.
C24_Reached ==
    /\ dash.pc = "done"
    /\ Len(dash.response.financial_report.entries) = 100
    /\ Cardinality(InDashboardPeriod) > 100
    /\ dash.response.financial_report.total_revenue = AmountOf(InDashboardPeriod)

\* another call on the same session with another target has started
OtherTargetCall(p) ==
    \E q \in Procs \ {p} :
        /\ calls[q].pc # "idle"
        /\ calls[q].session_id = calls[p].session_id
        /\ calls[q].new_status # CONCLUIDA

\* C25: when the entry step of an updateStatus call with target completed
\* fails, the call ends with the error of that step, the session write is
\* not undone (the stored session stays completed, unless a concurrent
\* call with another target wrote it) and no entry is created; a call
\* writes the completed session in the step before it scans the pending
\* entries, and creates an entry only after the scan.
C25_SessionWriteIsNotRolledBack ==
    [][\A p \in Procs :
          /\ (calls[p].pc = "create" /\ calls'[p].pc = "failed") =>
                /\ calls'[p].err \in {Validation, Infrastructure}
                /\ sessions' = sessions
                /\ sessions'[calls[p].session_id].status = REALIZADA
                      \/ OtherTargetCall(p)
                /\ entries' = entries
                /\ nextEntryId' = nextEntryId
          /\ (calls[p].pc # "scan" /\ calls'[p].pc = "scan") =>
                /\ calls[p].pc = "persist"
                /\ sessions'[calls'[p].session_id].status = REALIZADA
          /\ (calls[p].pc # "create" /\ calls'[p].pc = "create") =>
                calls[p].pc = "scan"
          /\ (calls[p].pc = "create" /\ calls'[p].pc = "done") =>
                /\ Cardinality(entries') = Cardinality(entries) + 1
                /\ sessions' = sessions]_vars

\* C25: a call has failed in its entry step; the session is stored
\* completed and has no entry.
C25_Reached ==
    \E p \in Procs :
        /\ calls[p].pc = "failed"
        /\ calls[p].new_status = CONCLUIDA
        /\ calls[p].err = Infrastructure
        /\ sessions[calls[p].session_id].status = REALIZADA
        /\ EntriesOf(entries, calls[p].session_id) = {}
        /\ ~OtherTargetCall(p)

\* C26: the session update use case never changes a session's status:
\* after a call, with any input and on a session of any status, every
\* stored session has the status it had before; the status of a stored
\* session changes in updateStatus steps only.
C26_UpdateKeepsStatus ==
    [][\A sid \in SessionIds :
          Existing(sid) =>
              /\ last'.op = "update_session" =>
                    sessions'[sid].status = sessions[sid].status
              /\ sessions'[sid].status # sessions[sid].status =>
                    last'.op = "update_status"]_vars

\* C26: a session update has changed the date-time of a completed session.
C26_Reached ==
    /\ last.op = "update_session"
    /\ last.err = OK
    /\ sessions[last.session_id].status = REALIZADA
    /\ sessions[last.session_id].date_time.day = 7

\* C27: in every reachable state the amount of each entry is the current
\* price of the session it references.
C27_AmountIsSessionPrice ==
    \A e \in entries :
        /\ Existing(e.session_id)
        /\ e.amount = sessions[e.session_id].price

\* C27 (what the code does): the amount of an entry is the price the
\* session had when the entry was created; it differs from the current
\* price only after a session update that set the price.
C27_AmountIsPriceAtCreation ==
    [][/\ \A e \in entries' \ entries :
             e.amount = sessions'[e.session_id].price
       /\ \A e \in entries :
             \E f \in entries' : f.id = e.id /\ f.amount = e.amount
       /\ \A sid \in SessionIds :
             (Existing(sid) /\ sessions'[sid].price # sessions[sid].price) =>
                 last'.op = "update_session"]_vars

\* C27: the price of a session that has an entry has been changed.
C27_Reached ==
    /\ last.op = "update_session"
    /\ last.err = OK
    /\ \E e \in entries :
          /\ e.session_id = last.session_id
          /\ e.amount # sessions[e.session_id].price

\* C28: in every reachable state each entry references a stored session
\* that is completed, and carries the owner and the patient of that
\* session.
C28_EntryMatchesCompletedSession ==
    \A e \in entries :
        /\ Existing(e.session_id)
        /\ sessions[e.session_id].status = CONCLUIDA
        /\ e.user_id = sessions[e.session_id].user_id
        /\ e.patient_id = sessions[e.session_id].patient_id

\* C28 (what the code does): each entry references a stored session that
\* is completed; it carries no owner, and the patient the session had when
\* the entry was created.
C28_EntryOfCompletedSession ==
    \A e \in entries :
        /\ Existing(e.session_id)
        /\ sessions[e.session_id].status = CONCLUIDA
        /\ e.user_id = NoUser
        /\ e.patient_id \in KnownPatients

\* C28: the patient of a completed session that has an entry has been
\* changed.
C28_Reached ==
    /\ last.op = "update_session"
    /\ last.err = OK
    /\ \E e \in entries :
          /\ e.session_id = last.session_id
          /\ e.patient_id # sessions[e.session_id].patient_id

WithinBounds(s) ==
    /\ 0 <= s.price
    /\ s.price <= 10000
    /\ 1 <= s.duration_minutes
    /\ s.duration_minutes <= 480
    /\ s.notes # None => Len(s.notes) <= 2000

\* C29: in every reachable state every stored session is within the bounds
\* the entity validates: price from 0 to 10000, duration from 1 to 480
\* minutes, notes of at most 2000 characters.
C29_StoredSessionsWithinBounds ==
    \A sid \in SessionIds : Existing(sid) => WithinBounds(sessions[sid])

\* C29 (what the code does): a session is within the bounds when it is
\* created, and is taken out of them by a session update only.
C29_OnlyUpdateLeavesBounds ==
    [][\A sid \in SessionIds :
          /\ (~Existing(sid) /\ sessions'[sid] # NoSession) =>
                WithinBounds(sessions'[sid])
          /\ (/\ Existing(sid)
              /\ WithinBounds(sessions[sid])
              /\ ~WithinBounds(sessions'[sid])) =>
                /\ last'.op = "update_session"
                /\ last'.err = OK]_vars

\* C29: a session update has stored a price above the ceiling.
C29_Reached ==
    /\ last.op = "update_session"
    /\ last.err = OK
    /\ sessions[last.session_id].price > 10000

SummaryIsConsistent(s) ==
    /\ s.total_patients >= 0
    /\ s.active_patients >= 0
    /\ s.inactive_patients >= 0
    /\ s.active_patients <= s.total_patients

\* C30: the patients summary of a dashboard summary is consistent also
\* when patients are created, activated or deactivated during the call:
\* total, active and inactive are not negative and active <= total.
C30_SummaryIsConsistent ==
    dash.pc = "done" => SummaryIsConsistent(dash.response.patients_summary)

\* C30 (what the code does): the summary is consistent when the patients
\* did not change during the call; otherwise total and active are counts
\* of two different store states, neither of them negative.
C30_ConsistentWhenUnchanged ==
    dash.pc = "done" =>
        /\ dash.response.patients_summary.total_patients >= 0
        /\ dash.response.patients_summary.active_patients >= 0
        /\ ~dash.changed => SummaryIsConsistent(dash.response.patients_summary)

\* C30: a dashboard summary during which patients changed has counted
\* more active patients than patients.
C30_Reached ==
    /\ dash.pc = "done"
    /\ dash.changed
    /\ dash.response.patients_summary.active_patients >
          dash.response.patients_summary.total_patients

Next ==
    \/ \E c \in CreateInputs :
          CreateSession(c.user_id, c.patient_id, c.date_time, c.price, c.notes)
    \/ \E sid \in SessionIds, st \in SessionStatus, n \in NotesInputs :
          UpdateStatus(sid, st, n)
    \/ \E sid \in SessionIds, in \in UpdateInputs : UpdateSession(sid, in)
    \/ \E e \in entries : MarkPaid(e)
    \/ \E e \in entries : MarkPending(e)

Spec == Init /\ [][Next]_vars
====
